---- MODULE Spec2Model ----
(***************************************************************************)
(* Expense tracker (src/app.py): the persistence store behind the request  *)
(* handlers, and the aggregation the dashboard and analytics endpoints     *)
(* compute from it.                                                        *)
(*                                                                         *)
(* Every handler is an operator from the store (and the form fields) to    *)
(* the store it commits and the message it flashes; an action applies it.  *)
(* Amounts are integers (the code's floats, summed exactly); a datetime is *)
(* kept as its calendar date, the only part any handler reads; the free    *)
(* text `description` is stored verbatim, read by no handler, and left out.*)
(* A handler reads the clock as one instant.                               *)
(***************************************************************************)
EXTENDS Integers, Sequences, FiniteSets, TLC

VARIABLES
    db,             \* the tables of db.Model (lines 43-116) and the backend's FK switch
    flash,          \* the message of the last mutating request (flash(...))
    now,            \* datetime.now(), as a calendar date
    budget_log,     \* history: per Budget key, the amount of the latest successful set_budget
    dismissed,      \* history: per user, the day of the latest ignore_budget_notification
    pending         \* per worker, the request it has looked up for and not yet written

vars == <<db, flash, now, budget_log, dismissed, pending>>

\* ------------------------------------------------------------------ values
Users == {1, 2}
NoParent == 0
MissingBudget == "missing_budget"

\* the workers that serve requests side by side, and a worker between requests
Workers == {1, 2}
Idle == [handler |-> "idle"]

Date(y, m, d) == [year |-> y, month |-> m, day |-> d]
StartDate == Date(2023, 12, 30)

IsLeap(y) == (y % 4 = 0 /\ y % 100 # 0) \/ y % 400 = 0

DaysIn(y, m) ==
    IF m = 2 THEN (IF IsLeap(y) THEN 29 ELSE 28)
    ELSE IF m \in {4, 6, 9, 11} THEN 30 ELSE 31

NextDay(t) ==
    IF t.day < DaysIn(t.year, t.month) THEN Date(t.year, t.month, t.day + 1)
    ELSE IF t.month < 12 THEN Date(t.year, t.month + 1, 1)
    ELSE Date(t.year + 1, 1, 1)

\* date.__lt__
DateLT(a, b) ==
    \/ a.year < b.year
    \/ a.year = b.year /\ a.month < b.month
    \/ a.year = b.year /\ a.month = b.month /\ a.day < b.day

RECURSIVE DaysAfter(_, _)
DaysAfter(from, t) == IF from = t THEN 0 ELSE 1 + DaysAfter(NextDay(from), t)

\* ------------------------------------------------------------------ store
Tables == {"expense_category", "income_category", "savings_category", "budget",
           "expense", "income", "savings", "ignored_notification"}

EmptyDb(fk) ==
    [expense_category |-> {}, income_category |-> {}, savings_category |-> {},
     budget |-> {}, expense |-> {}, income |-> {}, savings |-> {},
     ignored_notification |-> {}, foreign_keys |-> fk]

MaxOf(S) == CHOOSE x \in S : \A y \in S : y <= x

\* the integer primary key of a new row: one more than the largest in the table
NextId(table) == IF table = {} THEN 1 ELSE MaxOf({r.id : r \in table}) + 1

\* Model.query.get(id)
Get(table, id) == {r \in table : r.id = id}

\* a ForeignKey column: checked by the backend only when it enforces foreign keys
RefOk(d, table, id) == ~d.foreign_keys \/ Get(d[table], id) # {}

Flash(text) == [text |-> text, name |-> "", count |-> 0]
FlashCount(text, name, n) == [text |-> text, name |-> name, count |-> n]

Reply(d, f) == [db |-> d, flash |-> f]

\* an exception no handler catches: the session is discarded, the response is a 500
ServerError(d) == Reply(d, Flash("500 Internal Server Error"))

RECURSIVE SumAmount(_)
SumAmount(rows) ==
    IF rows = {} THEN 0
    ELSE LET r == CHOOSE x \in rows : TRUE IN r.amount + SumAmount(rows \ {r})

\* extract('month', col) == m, extract('year', col) == y
InMonth(rows, m, y) == {r \in rows : r.date.month = m /\ r.date.year = y}

\* ------------------------------------------------------------------ categories
add_expense_category(d, user, name, parent_id) ==
    IF parent_id # NoParent /\ ~RefOk(d, "expense_category", parent_id)
    THEN ServerError(d)
    ELSE Reply([d EXCEPT !.expense_category = @ \cup
                    {[id |-> NextId(d.expense_category), name |-> name,
                      parent_id |-> parent_id, user_id |-> user]}],
               Flash("Expense category added successfully"))

add_ledger_category(d, ctable, user, name, text) ==
    Reply([d EXCEPT ![ctable] = @ \cup
                {[id |-> NextId(d[ctable]), name |-> name, user_id |-> user]}],
          Flash(text))

add_income_category(d, user, name) ==
    add_ledger_category(d, "income_category", user, name,
                        "Income category added successfully")

add_savings_category(d, user, name) ==
    add_ledger_category(d, "savings_category", user, name,
                        "Savings category added successfully")

\* ExpenseCategory.expenses / .subcategories / .budgets: the rows whose foreign key
\* is the category's id, whoever owns them
ExpensesOf(d, cid) == {e \in d.expense : e.category_id = cid}
Subcategories(d, cid) == {c \in d.expense_category : c.parent_id = cid}
BudgetsOf(d, cid) == {b \in d.budget : b.category_id = cid}

delete_expense_category_no_subcheck(d, user, category_id) ==
    LET found == Get(d.expense_category, category_id) IN
    IF found # {} /\ (CHOOSE c \in found : TRUE).user_id = user
    THEN LET category == CHOOSE c \in found : TRUE IN
         IF ExpensesOf(d, category.id) # {}
         THEN Reply(d, FlashCount("Cannot delete - it has transactions", category.name,
                                  Cardinality(ExpensesOf(d, category.id))))
         ELSE Reply([d EXCEPT !.expense_category = @ \ {category},
                              !.budget = @ \ BudgetsOf(d, category.id)],
                    Flash("Category deleted successfully"))
    ELSE Reply(d, Flash("Category not found"))

delete_expense_category_keeps_budgets(d, user, category_id) ==
    LET found == Get(d.expense_category, category_id) IN
    IF found # {} /\ (CHOOSE c \in found : TRUE).user_id = user
    THEN LET category == CHOOSE c \in found : TRUE IN
         IF ExpensesOf(d, category.id) # {}
         THEN Reply(d, FlashCount("Cannot delete - it has transactions", category.name,
                                  Cardinality(ExpensesOf(d, category.id))))
         ELSE IF Subcategories(d, category.id) # {}
         THEN Reply(d, FlashCount("Cannot delete - it has subcategories", category.name, 0))
         ELSE Reply([d EXCEPT !.expense_category = @ \ {category}],
                    Flash("Category deleted successfully"))
    ELSE Reply(d, Flash("Category not found"))

delete_expense_category(d, user, category_id) ==
    LET found == Get(d.expense_category, category_id) IN
    IF found # {} /\ (CHOOSE c \in found : TRUE).user_id = user
    THEN LET category == CHOOSE c \in found : TRUE IN
         IF ExpensesOf(d, category.id) # {}
         THEN Reply(d, FlashCount("Cannot delete - it has transactions", category.name,
                                  Cardinality(ExpensesOf(d, category.id))))
         ELSE IF Subcategories(d, category.id) # {}
         THEN Reply(d, FlashCount("Cannot delete - it has subcategories", category.name, 0))
         ELSE \* cascade='all, delete-orphan' on expenses and budgets
              Reply([d EXCEPT !.expense_category = @ \ {category},
                              !.expense = @ \ ExpensesOf(d, category.id),
                              !.budget = @ \ BudgetsOf(d, category.id)],
                    Flash("Category deleted successfully"))
    ELSE Reply(d, Flash("Category not found"))

EntriesOf(d, etable, cid) == {e \in d[etable] : e.category_id = cid}

delete_ledger_category(d, ctable, etable, user, category_id) ==
    LET found == Get(d[ctable], category_id) IN
    IF found # {} /\ (CHOOSE c \in found : TRUE).user_id = user
    THEN LET category == CHOOSE c \in found : TRUE IN
         IF EntriesOf(d, etable, category.id) # {}
         THEN Reply(d, FlashCount("Cannot delete - it has transactions", category.name,
                                  Cardinality(EntriesOf(d, etable, category.id))))
         ELSE Reply([d EXCEPT ![ctable] = @ \ {category},
                              ![etable] = @ \ EntriesOf(d, etable, category.id)],
                    Flash("Category deleted successfully"))
    ELSE Reply(d, Flash("Category not found"))

delete_income_category(d, user, category_id) ==
    delete_ledger_category(d, "income_category", "income", user, category_id)

delete_savings_category(d, user, category_id) ==
    delete_ledger_category(d, "savings_category", "savings", user, category_id)

\* ------------------------------------------------------------------ budgets
BudgetFor(d, user, category_id, month, year) ==
    {b \in d.budget : b.user_id = user /\ b.category_id = category_id
                      /\ b.month = month /\ b.year = year}

\* Query.first(): some matching row (the one with the least id, as the backends scan)
First(rows) == CHOOSE r \in rows : \A q \in rows : r.id <= q.id

set_budget_always_inserts(d, user, category_id, amount, month, year) ==
    LET found == Get(d.expense_category, category_id) IN
    IF found # {} /\ (CHOOSE c \in found : TRUE).user_id = user
    THEN Reply([d EXCEPT !.budget = @ \cup
                    {[id |-> NextId(d.budget), amount |-> amount, month |-> month,
                      year |-> year, category_id |-> category_id, user_id |-> user]}],
               Flash("Budget set successfully"))
    ELSE Reply(d, Flash("Category not found"))

set_budget(d, user, category_id, amount, month, year) ==
    LET found == Get(d.expense_category, category_id) IN
    IF found # {} /\ (CHOOSE c \in found : TRUE).user_id = user
    THEN LET existing == BudgetFor(d, user, category_id, month, year) IN
         IF existing # {}
         THEN LET existing_budget == First(existing) IN
              Reply([d EXCEPT !.budget = (@ \ {existing_budget}) \cup
                                  {[existing_budget EXCEPT !.amount = amount]}],
                    Flash("Budget updated successfully"))
         ELSE Reply([d EXCEPT !.budget = @ \cup
                         {[id |-> NextId(d.budget), amount |-> amount, month |-> month,
                           year |-> year, category_id |-> category_id, user_id |-> user]}],
                    Flash("Budget set successfully"))
    ELSE Reply(d, Flash("Category not found"))

\* set_budget in its two steps. The lookup (lines 288-296) reads the category and the
\* Budget row of the key; the write (lines 298-314) acts on what the lookup saw:
\* an UPDATE of the row seen, by its primary key, or an INSERT, then the commit.
set_budget_lookup(d, user, category_id, month, year) ==
    LET found == Get(d.expense_category, category_id) IN
    IF found # {} /\ (CHOOSE c \in found : TRUE).user_id = user
    THEN LET existing == BudgetFor(d, user, category_id, month, year) IN
         [category |-> TRUE,
          existing_budget |-> IF existing # {} THEN {First(existing).id} ELSE {}]
    ELSE [category |-> FALSE, existing_budget |-> {}]

set_budget_write(d, user, category_id, amount, month, year, seen) ==
    IF seen.category
    THEN IF seen.existing_budget # {}
         THEN LET rows == {b \in d.budget : b.id \in seen.existing_budget} IN
              IF rows = {}
              THEN ServerError(d)
              ELSE Reply([d EXCEPT !.budget = (@ \ rows) \cup
                                      {[b EXCEPT !.amount = amount] : b \in rows}],
                         Flash("Budget updated successfully"))
         ELSE Reply([d EXCEPT !.budget = @ \cup
                         {[id |-> NextId(d.budget), amount |-> amount, month |-> month,
                           year |-> year, category_id |-> category_id, user_id |-> user]}],
                    Flash("Budget set successfully"))
    ELSE Reply(d, Flash("Category not found"))

\* ------------------------------------------------------------------ entries
add_entry_dated_at_start(d, etable, ctable, user, amount, category_id, date, text) ==
    IF ~RefOk(d, ctable, category_id)
    THEN ServerError(d)
    ELSE Reply([d EXCEPT ![etable] = @ \cup
                    {[id |-> NextId(d[etable]), amount |-> amount, date |-> StartDate,
                      category_id |-> category_id, user_id |-> user]}],
               Flash(text))

\* add_expense / add_income / add_savings: the row is built from the form as it comes
add_entry(d, etable, ctable, user, amount, category_id, date, text) ==
    IF ~RefOk(d, ctable, category_id)
    THEN ServerError(d)
    ELSE Reply([d EXCEPT ![etable] = @ \cup
                    {[id |-> NextId(d[etable]), amount |-> amount, date |-> date,
                      category_id |-> category_id, user_id |-> user]}],
               Flash(text))

add_expense(d, user, amount, category_id, date) ==
    add_entry(d, "expense", "expense_category", user, amount, category_id, date,
              "Expense added successfully")

add_income(d, user, amount, category_id, date) ==
    add_entry(d, "income", "income_category", user, amount, category_id, date,
              "Income added successfully")

add_savings(d, user, amount, category_id, date) ==
    add_entry(d, "savings", "savings_category", user, amount, category_id, date,
              "Savings added successfully")

delete_entry_of_any_user(d, etable, user, entry_id, text, missing) ==
    LET found == Get(d[etable], entry_id) IN
    IF found # {}
    THEN Reply([d EXCEPT ![etable] = @ \ found], Flash(text))
    ELSE Reply(d, Flash(missing))

delete_entry(d, etable, user, entry_id, text, missing) ==
    LET found == Get(d[etable], entry_id) IN
    IF found # {} /\ (CHOOSE e \in found : TRUE).user_id = user
    THEN Reply([d EXCEPT ![etable] = @ \ found], Flash(text))
    ELSE Reply(d, Flash(missing))

delete_expense(d, user, expense_id) ==
    delete_entry(d, "expense", user, expense_id,
                 "Expense deleted successfully", "Expense not found")

delete_income(d, user, income_id) ==
    delete_entry(d, "income", user, income_id,
                 "Income deleted successfully", "Income not found")

delete_savings(d, user, savings_id) ==
    delete_entry(d, "savings", user, savings_id,
                 "Savings deleted successfully", "Savings not found")

edit_entry(d, etable, ctable, user, entry_id, amount, category_id, date, text, missing) ==
    LET found == Get(d[etable], entry_id) IN
    IF found # {} /\ (CHOOSE e \in found : TRUE).user_id = user
    THEN LET entry == CHOOSE e \in found : TRUE IN
         IF ~RefOk(d, ctable, category_id)
         THEN ServerError(d)
         ELSE Reply([d EXCEPT ![etable] = (@ \ {entry}) \cup
                         {[entry EXCEPT !.amount = amount, !.category_id = category_id,
                                        !.date = date]}],
                    Flash(text))
    ELSE Reply(d, Flash(missing))

edit_expense(d, user, expense_id, amount, category_id, date) ==
    edit_entry(d, "expense", "expense_category", user, expense_id, amount, category_id,
               date, "Expense updated successfully", "Expense not found")

edit_income(d, user, income_id, amount, category_id, date) ==
    edit_entry(d, "income", "income_category", user, income_id, amount, category_id,
               date, "Income updated successfully", "Income not found")

edit_savings(d, user, savings_id, amount, category_id, date) ==
    edit_entry(d, "savings", "savings_category", user, savings_id, amount, category_id,
               date, "Savings updated successfully", "Savings not found")

\* ------------------------------------------------------------------ notifications
IgnoredFor(d, user, month, year) ==
    {n \in d.ignored_notification :
        n.user_id = user /\ n.notification_type = MissingBudget
        /\ n.month = month /\ n.year = year}

ignore_budget_notification_always_inserts(d, user, today) ==
    Reply([d EXCEPT !.ignored_notification = @ \cup
                {[id |-> NextId(d.ignored_notification),
                  notification_type |-> MissingBudget,
                  month |-> today.month, year |-> today.year,
                  ignored_date |-> today, user_id |-> user]}],
          Flash("Budget notification hidden until tomorrow"))

ignore_budget_notification(d, user, today) ==
    LET existing == IgnoredFor(d, user, today.month, today.year) IN
    IF existing # {}
    THEN LET row == First(existing) IN
         Reply([d EXCEPT !.ignored_notification = (@ \ {row}) \cup
                             {[row EXCEPT !.ignored_date = today]}],
               Flash("Budget notification hidden until tomorrow"))
    ELSE Reply([d EXCEPT !.ignored_notification = @ \cup
                    {[id |-> NextId(d.ignored_notification),
                      notification_type |-> MissingBudget,
                      month |-> today.month, year |-> today.year,
                      ignored_date |-> today, user_id |-> user]}],
               Flash("Budget notification hidden until tomorrow"))

\* ignore_budget_notification in its two steps: the lookup of lines 341-350 (which
\* reads the clock for the month and year), and the write of lines 352-364 (which
\* reads it again for ignored_date).
ignore_budget_notification_lookup(d, user, today) ==
    LET existing == IgnoredFor(d, user, today.month, today.year) IN
    [current_month |-> today.month, current_year |-> today.year,
     existing |-> IF existing # {} THEN {First(existing).id} ELSE {}]

ignore_budget_notification_write(d, user, today, seen) ==
    IF seen.existing # {}
    THEN LET rows == {n \in d.ignored_notification : n.id \in seen.existing} IN
         IF rows = {}
         THEN ServerError(d)
         ELSE Reply([d EXCEPT !.ignored_notification = (@ \ rows) \cup
                                 {[n EXCEPT !.ignored_date = today] : n \in rows}],
                    Flash("Budget notification hidden until tomorrow"))
    ELSE Reply([d EXCEPT !.ignored_notification = @ \cup
                    {[id |-> NextId(d.ignored_notification),
                      notification_type |-> MissingBudget,
                      month |-> seen.current_month, year |-> seen.current_year,
                      ignored_date |-> today, user_id |-> user]}],
               Flash("Budget notification hidden until tomorrow"))

\* ------------------------------------------------------------------ dashboard
\* a query's rows as a list, in primary-key order
RECURSIVE ById(_)
ById(rows) ==
    IF rows = {} THEN <<>>
    ELSE LET r == First(rows) IN <<r>> \o ById(rows \ {r})

TopLevel(d, user) ==
    {c \in d.expense_category : c.user_id = user /\ c.parent_id = NoParent}

RECURSIVE WithoutBudget(_, _, _, _)
WithoutBudget(d, user, cats, today) ==
    IF cats = <<>> THEN <<>>
    ELSE LET cat == Head(cats) IN
         (IF BudgetFor(d, user, cat.id, today.month, today.year) = {}
          THEN <<cat.name>> ELSE <<>>)
         \o WithoutBudget(d, user, Tail(cats), today)

categories_without_budget_any_month(d, user, today) ==
    LET cats == ById(TopLevel(d, user))
        bare == SelectSeq(cats, LAMBDA cat :
                    \A b \in d.budget : ~(b.user_id = user /\ b.category_id = cat.id))
    IN [i \in 1..Len(bare) |-> bare[i].name]

categories_without_budget(d, user, today) ==
    WithoutBudget(d, user, ById(TopLevel(d, user)), today)

show_budget_warning_whole_month(d, user, today) ==
    IF categories_without_budget(d, user, today) # <<>>
    THEN IgnoredFor(d, user, today.month, today.year) = {}
    ELSE FALSE

show_budget_warning(d, user, today) ==
    IF categories_without_budget(d, user, today) # <<>>
    THEN LET ignored == IgnoredFor(d, user, today.month, today.year) IN
         IF ignored # {}
         THEN DateLT(First(ignored).ignored_date, today)
         ELSE TRUE
    ELSE FALSE

total_budget(d, user, today) ==
    SumAmount({b \in d.budget : b.user_id = user /\ b.month = today.month
                                /\ b.year = today.year})

dashboard(d, user, today) ==
    [expenses |-> InMonth({e \in d.expense : e.user_id = user}, today.month, today.year),
     incomes |-> InMonth({e \in d.income : e.user_id = user}, today.month, today.year),
     savings |-> InMonth({e \in d.savings : e.user_id = user}, today.month, today.year),
     categories_without_budget |-> categories_without_budget(d, user, today),
     show_budget_warning |-> show_budget_warning(d, user, today),
     total_budget |-> total_budget(d, user, today)]

\* ------------------------------------------------------------------ analytics
by_category_outer_join(d, ctable, etable, user, month, year) ==
    LET entries == InMonth({e \in d[etable] : e.user_id = user}, month, year)
        joined(name) == {e \in entries :
                            \E c \in d[ctable] : c.id = e.category_id /\ c.name = name}
    IN {[name |-> n, amount |-> SumAmount(joined(n))] : n \in {c.name : c \in d[ctable]}}

\* query(Category.name, sum(Entry.amount)).join(Entry).filter(Entry.user_id == user,
\* month, year).group_by(Category.name): one record per name that has a joined row
by_category(d, ctable, etable, user, month, year) ==
    LET entries == InMonth({e \in d[etable] : e.user_id = user}, month, year)
        joined(name) == {e \in entries :
                            \E c \in d[ctable] : c.id = e.category_id /\ c.name = name}
        names == {c.name : c \in {c \in d[ctable] :
                                    \E e \in entries : e.category_id = c.id}}
    IN {[name |-> n, amount |-> SumAmount(joined(n))] : n \in names}

expense_by_category(d, user, month, year) ==
    by_category(d, "expense_category", "expense", user, month, year)

savings_by_category(d, user, month, year) ==
    by_category(d, "savings_category", "savings", user, month, year)

category_ids_with_grandchildren(d, cat) ==
    {cat.id} \cup {sub.id : sub \in Subcategories(d, cat.id)}
    \cup {g.id : g \in {g \in d.expense_category :
                          \E sub \in Subcategories(d, cat.id) : g.parent_id = sub.id}}

\* [cat.id] + [sub.id for sub in cat.subcategories]
category_ids(d, cat) == {cat.id} \cup {sub.id : sub \in Subcategories(d, cat.id)}

total_spent(d, user, cat, month, year) ==
    SumAmount(InMonth({e \in d.expense : e.user_id = user
                                         /\ e.category_id \in category_ids(d, cat)},
                      month, year))

budget_amount(d, user, cat, month, year) ==
    LET budget_entry == BudgetFor(d, user, cat.id, month, year) IN
    IF budget_entry # {} THEN First(budget_entry).amount ELSE 0

RECURSIVE BudgetVsSpendLoop(_, _, _, _, _)
BudgetVsSpendLoop(d, user, cats, month, year) ==
    IF cats = <<>> THEN <<>>
    ELSE LET cat == Head(cats) IN
         <<[name |-> cat.name,
            budget |-> budget_amount(d, user, cat, month, year),
            spent |-> total_spent(d, user, cat, month, year)]>>
         \o BudgetVsSpendLoop(d, user, Tail(cats), month, year)

budget_vs_spend(d, user, month, year) ==
    BudgetVsSpendLoop(d, user, ById(TopLevel(d, user)), month, year)

category_details(d, user, month, year) ==
    BudgetVsSpendLoop(d, user, ById(TopLevel(d, user)), month, year)

RolloverKeepsYear(target_month, target_year) ==
    IF target_month <= 0 THEN [month |-> target_month + 12, year |-> target_year]
    ELSE [month |-> target_month, year |-> target_year]

\* while target_month <= 0: target_month += 12; target_year -= 1
RECURSIVE Rollover(_, _)
Rollover(target_month, target_year) ==
    IF target_month <= 0 THEN Rollover(target_month + 12, target_year - 1)
    ELSE [month |-> target_month, year |-> target_year]

\* range(6)
TimelinePoints == 6

\* str(n) for n >= 0, as its characters
DigitChar == <<"0", "1", "2", "3", "4", "5", "6", "7", "8", "9">>

RECURSIVE Str(_)
Str(n) == IF n < 10 THEN <<DigitChar[n + 1]>>
          ELSE Str(n \div 10) \o <<DigitChar[(n % 10) + 1]>>

\* f"{n:02d}" for n >= 0
Str02(n) == IF n < 10 THEN <<"0">> \o Str(n) ELSE Str(n)

\* f"{target_year}-{target_month:02d}"
MonthLabel(target_year, target_month) ==
    Str(target_year) \o <<"-">> \o Str02(target_month)

total_expense(d, user, target_month, target_year) ==
    SumAmount(InMonth({e \in d.expense : e.user_id = user}, target_month, target_year))

month_budget(d, user, target_month, target_year) ==
    SumAmount({b \in d.budget : b.user_id = user /\ b.month = target_month
                                /\ b.year = target_year})

\* pass i of the loop of lines 706-732
monthly_point(d, user, month, year, i) ==
    LET t == Rollover(month - i, year) IN
    [month |-> MonthLabel(t.year, t.month),
     amount |-> total_expense(d, user, t.month, t.year)]

budget_point(d, user, month, year, i) ==
    LET t == Rollover(month - i, year) IN month_budget(d, user, t.month, t.year)

\* for i in range(6): list.insert(0, point): pass i ends at place 6 - i of the list
monthly_timeline(d, user, month, year) ==
    [place \in 1..TimelinePoints |->
        monthly_point(d, user, month, year, TimelinePoints - place)]

budget_timeline(d, user, month, year) ==
    [place \in 1..TimelinePoints |->
        budget_point(d, user, month, year, TimelinePoints - place)]

analytics_data(d, user, month, year) ==
    [expense_by_category |-> expense_by_category(d, user, month, year),
     savings_by_category |-> savings_by_category(d, user, month, year),
     budget_vs_spend |-> budget_vs_spend(d, user, month, year),
     category_details |-> category_details(d, user, month, year),
     monthly_timeline |-> monthly_timeline(d, user, month, year),
     budget_timeline |-> budget_timeline(d, user, month, year)]

\* ------------------------------------------------------------------ actions
\* One action per handler. The form fields are drawn from the sets a specification
\* passes (`users` are the users who send the request); `cap` bounds the primary keys
\* of the table a handler inserts into.
Init ==
    /\ db \in {EmptyDb(fk) : fk \in BOOLEAN}
    /\ flash = Flash("")
    /\ now = StartDate
    /\ budget_log = {}
    /\ dismissed = {}
    /\ pending = [w \in Workers |-> Idle]

Commit(r) == db' = r.db /\ flash' = r.flash

AddExpenseCategory(users, names, parents, cap) ==
    /\ NextId(db.expense_category) <= cap
    /\ \E user \in users, name \in names, parent_id \in parents :
          Commit(add_expense_category(db, user, name, parent_id))
    /\ UNCHANGED <<now, budget_log, dismissed, pending>>

AddIncomeCategory(users, names, cap) ==
    /\ NextId(db.income_category) <= cap
    /\ \E user \in users, name \in names : Commit(add_income_category(db, user, name))
    /\ UNCHANGED <<now, budget_log, dismissed, pending>>

AddSavingsCategory(users, names, cap) ==
    /\ NextId(db.savings_category) <= cap
    /\ \E user \in users, name \in names : Commit(add_savings_category(db, user, name))
    /\ UNCHANGED <<now, budget_log, dismissed, pending>>

SetBudget(users, cids, amounts, months, cap) ==
    /\ \E user \in users, category_id \in cids, amount \in amounts,
          m \in months :
          LET r == set_budget(db, user, category_id, amount, m.month, m.year)
              key == <<user, category_id, m.month, m.year>>
          IN /\ \A b \in r.db.budget : b.id <= cap
             /\ Commit(r)
             /\ budget_log' =
                    IF r.flash.text \in {"Budget set successfully",
                                         "Budget updated successfully"}
                    THEN {e \in budget_log : e.key # key}
                         \cup {[key |-> key, amount |-> amount]}
                    ELSE budget_log
    /\ UNCHANGED <<now, dismissed, pending>>

\* the history is kept per category: it ends with the category's deletion
DeleteExpenseCategory(users, cids) ==
    /\ \E user \in users, category_id \in cids :
          LET r == delete_expense_category(db, user, category_id) IN
          /\ Commit(r)
          /\ budget_log' =
                 IF r.flash.text = "Category deleted successfully"
                 THEN {e \in budget_log : e.key[2] # category_id}
                 ELSE budget_log
    /\ UNCHANGED <<now, dismissed, pending>>

DeleteIncomeCategory(users, cids) ==
    /\ \E user \in users, category_id \in cids :
          Commit(delete_income_category(db, user, category_id))
    /\ UNCHANGED <<now, budget_log, dismissed, pending>>

DeleteSavingsCategory(users, cids) ==
    /\ \E user \in users, category_id \in cids :
          Commit(delete_savings_category(db, user, category_id))
    /\ UNCHANGED <<now, budget_log, dismissed, pending>>

AddExpense(users, amounts, cids, dates, cap) ==
    /\ NextId(db.expense) <= cap
    /\ \E user \in users, amount \in amounts, category_id \in cids,
          date \in dates :
          Commit(add_expense(db, user, amount, category_id, date))
    /\ UNCHANGED <<now, budget_log, dismissed, pending>>

AddIncome(users, amounts, cids, dates, cap) ==
    /\ NextId(db.income) <= cap
    /\ \E user \in users, amount \in amounts, category_id \in cids,
          date \in dates :
          Commit(add_income(db, user, amount, category_id, date))
    /\ UNCHANGED <<now, budget_log, dismissed, pending>>

AddSavings(users, amounts, cids, dates, cap) ==
    /\ NextId(db.savings) <= cap
    /\ \E user \in users, amount \in amounts, category_id \in cids,
          date \in dates :
          Commit(add_savings(db, user, amount, category_id, date))
    /\ UNCHANGED <<now, budget_log, dismissed, pending>>

DeleteExpense(users, ids) ==
    /\ \E user \in users, expense_id \in ids :
          Commit(delete_expense(db, user, expense_id))
    /\ UNCHANGED <<now, budget_log, dismissed, pending>>

DeleteIncome(users, ids) ==
    /\ \E user \in users, income_id \in ids :
          Commit(delete_income(db, user, income_id))
    /\ UNCHANGED <<now, budget_log, dismissed, pending>>

DeleteSavings(users, ids) ==
    /\ \E user \in users, savings_id \in ids :
          Commit(delete_savings(db, user, savings_id))
    /\ UNCHANGED <<now, budget_log, dismissed, pending>>

EditExpense(users, ids, amounts, cids, dates) ==
    /\ \E user \in users, expense_id \in ids, amount \in amounts,
          category_id \in cids, date \in dates :
          Commit(edit_expense(db, user, expense_id, amount, category_id, date))
    /\ UNCHANGED <<now, budget_log, dismissed, pending>>

EditIncome(users, ids, amounts, cids, dates) ==
    /\ \E user \in users, income_id \in ids, amount \in amounts,
          category_id \in cids, date \in dates :
          Commit(edit_income(db, user, income_id, amount, category_id, date))
    /\ UNCHANGED <<now, budget_log, dismissed, pending>>

EditSavings(users, ids, amounts, cids, dates) ==
    /\ \E user \in users, savings_id \in ids, amount \in amounts,
          category_id \in cids, date \in dates :
          Commit(edit_savings(db, user, savings_id, amount, category_id, date))
    /\ UNCHANGED <<now, budget_log, dismissed, pending>>

IgnoreBudgetNotification(users) ==
    /\ \E user \in users :
          /\ Commit(ignore_budget_notification(db, user, now))
          /\ dismissed' = {e \in dismissed : e.user_id # user}
                          \cup {[user_id |-> user, day |-> now]}
    /\ UNCHANGED <<now, budget_log, pending>>

\* The same two handlers served by workers side by side: a worker looks up, other
\* workers may run, and then it writes and commits what its lookup decided.
SetBudgetLookup(users, cids, amounts, months) ==
    /\ \E w \in Workers, user \in users, category_id \in cids, amount \in amounts,
          m \in months :
          /\ pending[w] = Idle
          /\ pending' = [pending EXCEPT ![w] =
                 [handler |-> "set_budget", user |-> user, category_id |-> category_id,
                  amount |-> amount, month |-> m.month, year |-> m.year,
                  seen |-> set_budget_lookup(db, user, category_id, m.month, m.year)]]
    /\ UNCHANGED <<db, flash, now, budget_log, dismissed>>

SetBudgetWrite ==
    /\ \E w \in Workers :
          /\ pending[w].handler = "set_budget"
          /\ LET q == pending[w]
                 r == set_budget_write(db, q.user, q.category_id, q.amount, q.month,
                                       q.year, q.seen)
                 key == <<q.user, q.category_id, q.month, q.year>>
             IN /\ Commit(r)
                /\ budget_log' =
                       IF r.flash.text \in {"Budget set successfully",
                                            "Budget updated successfully"}
                       THEN {e \in budget_log : e.key # key}
                            \cup {[key |-> key, amount |-> q.amount]}
                       ELSE budget_log
          /\ pending' = [pending EXCEPT ![w] = Idle]
    /\ UNCHANGED <<now, dismissed>>

IgnoreBudgetNotificationLookup(users) ==
    /\ \E w \in Workers, user \in users :
          /\ pending[w] = Idle
          /\ pending' = [pending EXCEPT ![w] =
                 [handler |-> "ignore_budget_notification", user |-> user,
                  seen |-> ignore_budget_notification_lookup(db, user, now)]]
    /\ UNCHANGED <<db, flash, now, budget_log, dismissed>>

IgnoreBudgetNotificationWrite ==
    /\ \E w \in Workers :
          /\ pending[w].handler = "ignore_budget_notification"
          /\ LET q == pending[w] IN
             /\ Commit(ignore_budget_notification_write(db, q.user, now, q.seen))
             /\ dismissed' = {e \in dismissed : e.user_id # q.user}
                             \cup {[user_id |-> q.user, day |-> now]}
          /\ pending' = [pending EXCEPT ![w] = Idle]
    /\ UNCHANGED <<now, budget_log>>

\* midnight passes
Tick(ticks) ==
    /\ DaysAfter(StartDate, now) < ticks
    /\ now' = NextDay(now)
    /\ UNCHANGED <<db, flash, budget_log, dismissed, pending>>

\* ------------------------------------------------------------------ the store
\* Every handler that writes categories, budgets and entries, on a store of at most
\* MaxRows rows; the ids a form carries, and the primary keys, are those of Ids.
MaxRows == 2

Ids == {1, 2}
MaxId == MaxOf(Ids)
March15 == Date(2024, 3, 15)
March2024 == [month |-> 3, year |-> 2024]

Rows(d) ==
    Cardinality(d.expense_category) + Cardinality(d.income_category)
    + Cardinality(d.savings_category) + Cardinality(d.budget)
    + Cardinality(d.expense) + Cardinality(d.income) + Cardinality(d.savings)
    + Cardinality(d.ignored_notification)

Next ==
    \/ /\ Rows(db) < MaxRows
       /\ \/ AddExpenseCategory(Users, {"Food"}, {NoParent} \cup Ids, MaxId)
          \/ AddIncomeCategory(Users, {"Food"}, MaxId)
          \/ AddSavingsCategory(Users, {"Food"}, MaxId)
          \/ AddExpense(Users, {20}, Ids, {March15}, MaxId)
          \/ AddIncome(Users, {20}, Ids, {March15}, MaxId)
          \/ AddSavings(Users, {20}, Ids, {March15}, MaxId)
    \/ SetBudget(Users, Ids, {20, 50}, {March2024}, IF Rows(db) < MaxRows THEN MaxId ELSE 0)
    \/ DeleteExpenseCategory(Users, Ids)
    \/ DeleteIncomeCategory(Users, Ids)
    \/ DeleteSavingsCategory(Users, Ids)
    \/ DeleteExpense(Users, Ids)
    \/ DeleteIncome(Users, Ids)
    \/ DeleteSavings(Users, Ids)
    \/ EditExpense(Users, Ids, {50}, Ids, {March15})
    \/ EditIncome(Users, Ids, {50}, Ids, {March15})
    \/ EditSavings(Users, Ids, {50}, Ids, {March15})

Spec == Init /\ [][Next]_vars

\* the forms a request of the store specification can carry
FormAmounts == {20, 50}
FormDates == {March15}
FormMonths == {March2024}

\* `user` owns a row `id` of `table`
Owns(d, table, user, id) == \E r \in d[table] : r.id = id /\ r.user_id = user

\* C8: a set_budget, delete_*_category, delete_* or edit_* request whose target id
\* does not exist or belongs to another user answers 'not found' and leaves the
\* store as it was.
C8_NotFoundLeavesStore ==
    \A user \in Users, id \in Ids :
        /\ ~Owns(db, "expense_category", user, id) =>
              /\ \A amount \in FormAmounts, m \in FormMonths :
                    set_budget(db, user, id, amount, m.month, m.year)
                        = Reply(db, Flash("Category not found"))
              /\ delete_expense_category(db, user, id)
                    = Reply(db, Flash("Category not found"))
        /\ ~Owns(db, "income_category", user, id) =>
              delete_income_category(db, user, id) = Reply(db, Flash("Category not found"))
        /\ ~Owns(db, "savings_category", user, id) =>
              delete_savings_category(db, user, id) = Reply(db, Flash("Category not found"))
        /\ ~Owns(db, "expense", user, id) =>
              /\ delete_expense(db, user, id) = Reply(db, Flash("Expense not found"))
              /\ \A amount \in FormAmounts, category_id \in Ids, date \in FormDates :
                    edit_expense(db, user, id, amount, category_id, date)
                        = Reply(db, Flash("Expense not found"))
        /\ ~Owns(db, "income", user, id) =>
              /\ delete_income(db, user, id) = Reply(db, Flash("Income not found"))
              /\ \A amount \in FormAmounts, category_id \in Ids, date \in FormDates :
                    edit_income(db, user, id, amount, category_id, date)
                        = Reply(db, Flash("Income not found"))
        /\ ~Owns(db, "savings", user, id) =>
              /\ delete_savings(db, user, id) = Reply(db, Flash("Savings not found"))
              /\ \A amount \in FormAmounts, category_id \in Ids, date \in FormDates :
                    edit_savings(db, user, id, amount, category_id, date)
                        = Reply(db, Flash("Savings not found"))

\* a request for another user's expense has just been answered 'not found', and the
\* expense is still there
C8_Witness ==
    /\ flash = Flash("Expense not found")
    /\ db.expense # {}
    /\ \E user \in Users, e \in db.expense : e.user_id # user

\* C2: the owner's delete of a category removes it exactly when nothing depends on it
\* (an ExpenseCategory: no expense references it and it has no subcategory; an
\* IncomeCategory or SavingsCategory: no entry references it); with a dependent the
\* delete fails and the category and its dependents stay.
C2_DeleteGuard ==
    /\ \A c \in db.expense_category :
          LET r == delete_expense_category(db, c.user_id, c.id)
              dependents == {e \in db.expense : e.category_id = c.id}
                            \cup {s \in db.expense_category : s.parent_id = c.id}
          IN /\ (c \notin r.db.expense_category) <=> (dependents = {})
             /\ dependents = {} => r.db.expense_category = db.expense_category \ {c}
             /\ dependents # {} =>
                   /\ r.db = db
                   /\ r.flash.text \in {"Cannot delete - it has transactions",
                                        "Cannot delete - it has subcategories"}
    /\ \A c \in db.income_category :
          LET r == delete_income_category(db, c.user_id, c.id)
              dependents == {e \in db.income : e.category_id = c.id}
          IN /\ (c \notin r.db.income_category) <=> (dependents = {})
             /\ dependents = {} => r.db.income_category = db.income_category \ {c}
             /\ dependents # {} =>
                   /\ r.db = db
                   /\ r.flash.text = "Cannot delete - it has transactions"
    /\ \A c \in db.savings_category :
          LET r == delete_savings_category(db, c.user_id, c.id)
              dependents == {e \in db.savings : e.category_id = c.id}
          IN /\ (c \notin r.db.savings_category) <=> (dependents = {})
             /\ dependents = {} => r.db.savings_category = db.savings_category \ {c}
             /\ dependents # {} =>
                   /\ r.db = db
                   /\ r.flash.text = "Cannot delete - it has transactions"

\* the owner has just been refused the delete of a category that has a subcategory,
\* and both are still there
C2_Witness ==
    /\ flash.text = "Cannot delete - it has subcategories"
    /\ \E c, s \in db.expense_category : s.parent_id = c.id /\ flash.name = c.name

\* C9: add_expense, add_income, add_savings, edit_* (by its category_id) and
\* add_expense_category (by its parent_id), given a category id that does not exist
\* or is not the requesting user's, abort and create or modify no row.
C9_ForeignCategoryAborts ==
    \A user \in Users, category_id \in Ids, amount \in FormAmounts, date \in FormDates :
        /\ ~Owns(db, "expense_category", user, category_id) =>
              /\ add_expense(db, user, amount, category_id, date).db = db
              /\ \A name \in {"Food"} :
                    add_expense_category(db, user, name, category_id).db = db
              /\ \A e \in db.expense : e.user_id = user =>
                    edit_expense(db, user, e.id, amount, category_id, date).db = db
        /\ ~Owns(db, "income_category", user, category_id) =>
              /\ add_income(db, user, amount, category_id, date).db = db
              /\ \A e \in db.income : e.user_id = user =>
                    edit_income(db, user, e.id, amount, category_id, date).db = db
        /\ ~Owns(db, "savings_category", user, category_id) =>
              /\ add_savings(db, user, amount, category_id, date).db = db
              /\ \A e \in db.savings : e.user_id = user =>
                    edit_savings(db, user, e.id, amount, category_id, date).db = db

\* what one request of `user` can make of the store: the reply of every handler, for
\* every form of the store specification
RepliesTo(d, user) ==
    {add_expense_category(d, user, "Food", p) : p \in {NoParent} \cup Ids}
    \cup {add_income_category(d, user, "Food"), add_savings_category(d, user, "Food")}
    \cup {set_budget(d, user, c, a, m.month, m.year) :
            c \in Ids, a \in FormAmounts, m \in FormMonths}
    \cup {delete_expense_category(d, user, c) : c \in Ids}
    \cup {delete_income_category(d, user, c) : c \in Ids}
    \cup {delete_savings_category(d, user, c) : c \in Ids}
    \cup {add_expense(d, user, a, c, t) : a \in FormAmounts, c \in Ids, t \in FormDates}
    \cup {add_income(d, user, a, c, t) : a \in FormAmounts, c \in Ids, t \in FormDates}
    \cup {add_savings(d, user, a, c, t) : a \in FormAmounts, c \in Ids, t \in FormDates}
    \cup {delete_expense(d, user, i) : i \in Ids}
    \cup {delete_income(d, user, i) : i \in Ids}
    \cup {delete_savings(d, user, i) : i \in Ids}
    \cup {edit_expense(d, user, i, a, c, t) :
            i \in Ids, a \in FormAmounts, c \in Ids, t \in FormDates}
    \cup {edit_income(d, user, i, a, c, t) :
            i \in Ids, a \in FormAmounts, c \in Ids, t \in FormDates}
    \cup {edit_savings(d, user, i, a, c, t) :
            i \in Ids, a \in FormAmounts, c \in Ids, t \in FormDates}
    \cup {ignore_budget_notification(d, user, now)}

RowsOf(d, user) == [t \in Tables |-> {r \in d[t] : r.user_id = user}]

\* what `user` is shown, and how the requests `user` makes on rows of their own end
PagesOf(d, user) ==
    [dashboard |-> dashboard(d, user, now),
     analytics |-> [m \in FormMonths |-> analytics_data(d, user, m.month, m.year)],
     set_budget |-> [c \in {c \in d.expense_category : c.user_id = user} |->
                        set_budget(d, user, c.id, 20, 3, 2024).flash],
     delete_expense_category |->
        [c \in {c \in d.expense_category : c.user_id = user} |->
            delete_expense_category(d, user, c.id).flash],
     delete_income_category |->
        [c \in {c \in d.income_category : c.user_id = user} |->
            delete_income_category(d, user, c.id).flash],
     delete_savings_category |->
        [c \in {c \in d.savings_category : c.user_id = user} |->
            delete_savings_category(d, user, c.id).flash],
     delete_expense |-> [e \in {e \in d.expense : e.user_id = user} |->
                            delete_expense(d, user, e.id).flash],
     delete_income |-> [e \in {e \in d.income : e.user_id = user} |->
                            delete_income(d, user, e.id).flash],
     delete_savings |-> [e \in {e \in d.savings : e.user_id = user} |->
                            delete_savings(d, user, e.id).flash]]

\* C10: no request of a user A changes a row of another user B, what B's dashboard
\* and analytics show, or whether a request of B (the delete of one of B's own
\* categories, say) succeeds.
C10_UsersIndependent ==
    \A a \in Users, b \in Users :
        a # b => \A r \in RepliesTo(db, a) :
                    /\ RowsOf(r.db, b) = RowsOf(db, b)
                    /\ PagesOf(r.db, b) = PagesOf(db, b)

\* ------------------------------------------------------------------ budgets
\* Categories come and go and budgets are set, for two months, on a budget table
\* with primary keys up to MaxBudgetId.
MaxBudgetId == 2

BudgetMonths == {March2024, [month |-> 4, year |-> 2024]}

NextBudget ==
    \/ AddExpenseCategory(Users, {"Food"}, {NoParent}, MaxId)
    \/ SetBudget(Users, Ids, {20, 50}, BudgetMonths, MaxBudgetId)
    \/ DeleteExpenseCategory(Users, Ids)

SpecBudget == Init /\ [][NextBudget]_vars

BudgetKey(b) == <<b.user_id, b.category_id, b.month, b.year>>

\* C1: whatever set_budget requests were served, the store holds at most one Budget
\* row per (user, category, month, year), and its amount is the amount of the latest
\* successful set_budget for that key.
C1_BudgetUpsert ==
    /\ \A b1 \in db.budget, b2 \in db.budget : BudgetKey(b1) = BudgetKey(b2) => b1 = b2
    /\ \A b \in db.budget :
          \E e \in budget_log : e.key = BudgetKey(b) /\ e.amount = b.amount

\* a budget has just been set a second time for its key, with another amount, and
\* the key still has one row
C1_Witness ==
    /\ flash.text = "Budget updated successfully"
    /\ \E b \in db.budget :
          /\ b.amount = 50
          /\ BudgetFor(db, b.user_id, b.category_id, b.month, b.year) = {b}

\* ------------------------------------------------------------------ notifications
\* Categories are added and budgeted, users dismiss the warning, and up to MaxTicks
\* midnights pass: from 2023-12-30 into the new month and year.
MaxTicks == 2
MaxNotifyBudgetId == 1

ClockMonths == {[month |-> 12, year |-> 2023], [month |-> 1, year |-> 2024]}

NextNotify ==
    \/ AddExpenseCategory(Users, {"Food"}, {NoParent, 1}, MaxId)
    \/ SetBudget(Users, Ids, {20}, ClockMonths, MaxNotifyBudgetId)
    \/ IgnoreBudgetNotification(Users)
    \/ Tick(MaxTicks)

SpecNotify == Init /\ [][NextNotify]_vars

\* the user's top-level categories with no budget for the month of `today`
Uncovered(user, today) ==
    {c \in db.expense_category :
        /\ c.user_id = user
        /\ c.parent_id = NoParent
        /\ ~\E b \in db.budget : /\ b.user_id = user /\ b.category_id = c.id
                                 /\ b.month = today.month /\ b.year = today.year}

DismissedToday(user) == \E e \in dismissed : e.user_id = user /\ e.day = now

\* C3: while a top-level category lacks a budget for the current month, the
\* dashboard hides the warning on the day of the user's latest
\* ignore_budget_notification and shows it on any later day (also in a new month or
\* year); with every top-level category covered it never shows it.
C3_NotificationSuppression ==
    \A user \in Users :
        LET show == dashboard(db, user, now).show_budget_warning IN
        /\ Uncovered(user, now) = {} => ~show
        /\ Uncovered(user, now) # {} => (show <=> ~DismissedToday(user))

\* in the new year, with categories of both users uncovered: user 1 dismissed last
\* year and is shown the warning again, user 2 dismissed today and is not
C3_Witness ==
    /\ Uncovered(1, now) # {}
    /\ Uncovered(2, now) # {}
    /\ \E e \in dismissed : e.user_id = 1 /\ e.day.year < now.year
    /\ DismissedToday(2)
    /\ dashboard(db, 1, now).show_budget_warning
    /\ ~dashboard(db, 2, now).show_budget_warning

\* ------------------------------------------------------------------ timeline
\* Expenses and budgets on either side of the turn of the year; analytics_data is
\* asked for every month of 2024.
MaxExpenseId == 2
MaxTimelineBudgetId == 1

December15 == Date(2023, 12, 15)
TimelineDates == {December15, March15}
TimelineMonths == {[month |-> 12, year |-> 2023], March2024}
Months == 1..12
Years == {2024}

NextTimeline ==
    \/ AddExpenseCategory(Users, {"Food"}, {NoParent}, MaxId)
    \/ AddExpense(Users, {20}, {1}, TimelineDates, MaxExpenseId)
    \/ SetBudget(Users, Ids, {50}, TimelineMonths, MaxTimelineBudgetId)

SpecTimeline == Init /\ [][NextTimeline]_vars

\* the i-th of the six months that end with (month, year), counted in months since
\* year 0
MonthOf(month, year, i) ==
    LET k == (year * 12 + (month - 1)) - (6 - i) IN
    [year |-> k \div 12, month |-> (k % 12) + 1]

\* C4: for a target month 1..12 of any year, monthly_timeline has exactly 6 points, the
\* target month and the 5 before it, oldest first, across the turn of the year
\* (month=2, year=2024 gives 2023-09 .. 2024-02); budget_timeline has the same length
\* and order; point i carries the user's expense total, respectively budget total,
\* of month i.
C4_TrailingTimeline ==
    \A user \in Users, month \in Months, year \in Years :
        /\ monthly_timeline(db, user, month, year) =
              [i \in 1..6 |->
                  LET t == MonthOf(month, year, i) IN
                  [month |-> MonthLabel(t.year, t.month),
                   amount |-> SumAmount({e \in db.expense :
                                            /\ e.user_id = user
                                            /\ e.date.year = t.year
                                            /\ e.date.month = t.month})]]
        /\ budget_timeline(db, user, month, year) =
              [i \in 1..6 |->
                  LET t == MonthOf(month, year, i) IN
                  SumAmount({b \in db.budget :
                                /\ b.user_id = user
                                /\ b.year = t.year /\ b.month = t.month})]
        /\ (month = 2 /\ year = 2024) =>
              monthly_timeline(db, user, month, year)[1].month
                 = <<"2", "0", "2", "3", "-", "0", "9">>

\* user 1 has an expense and a budget in December 2023 and an expense in March 2024:
\* the timeline for March 2024 carries them at its third and last points
C4_Witness ==
    LET points == monthly_timeline(db, 1, 3, 2024)
        budgets == budget_timeline(db, 1, 3, 2024)
    IN /\ points[3].amount > 0
       /\ points[6].amount > 0
       /\ budgets[3] > 0
       /\ points[3].month = <<"2", "0", "2", "3", "-", "1", "2">>

\* ------------------------------------------------------------------ rollup
\* User 1 builds a tree of up to three categories (a category, its subcategory, its
\* grandchild, or any flatter shape), both users record expenses in them, and
\* budgets are set for March 2024; analytics_data is asked for March and April.
MaxRollupExpenseId == 2
MaxRollupBudgetId == 1

RollupIds == {1, 2, 3}
April2024 == [month |-> 4, year |-> 2024]
RollupMonths == {March2024, April2024}

NextRollup ==
    \/ AddExpenseCategory({1}, {"Food"}, {NoParent, 1, 2}, MaxOf(RollupIds))
    \/ AddExpense(Users, {20}, RollupIds, {March15}, MaxRollupExpenseId)
    \/ SetBudget(Users, RollupIds, {50}, {March2024}, MaxRollupBudgetId)

SpecRollup == Init /\ [][NextRollup]_vars

\* C6: budget_vs_spend has exactly one record per top-level expense category of the
\* user; its spent is the sum of the user's expenses of the target month whose
\* category is that category or one of its direct subcategories (not a grandchild),
\* its budget is the amount of the Budget row of that category, month and year, 0
\* when there is none; without subcategories spent is the category's own sum.
C6_CategoryRollup ==
    \A user \in Users, m \in RollupMonths :
        LET records == budget_vs_spend(db, user, m.month, m.year)
            tops == {c \in db.expense_category :
                        c.user_id = user /\ c.parent_id = NoParent}
            place(c) == Cardinality({t \in tops : t.id <= c.id})
            mine == {e \in db.expense : /\ e.user_id = user
                                        /\ e.date.month = m.month
                                        /\ e.date.year = m.year}
            direct(c) == {e \in mine : e.category_id = c.id}
            below(c) == {e \in mine : \E s \in db.expense_category :
                                          s.parent_id = c.id /\ e.category_id = s.id}
            budgets(c) == {b \in db.budget : /\ b.user_id = user
                                             /\ b.category_id = c.id
                                             /\ b.month = m.month
                                             /\ b.year = m.year}
        IN /\ Len(records) = Cardinality(tops)
           /\ \A c \in tops :
                 LET record == records[place(c)] IN
                 /\ record.name = c.name
                 /\ record.spent = SumAmount(direct(c) \cup below(c))
                 /\ budgets(c) = {} => record.budget = 0
                 /\ \A b \in budgets(c) : record.budget = b.amount
                 /\ (\A s \in db.expense_category : s.parent_id # c.id) =>
                       record.spent = SumAmount(direct(c))

\* user 1's category 1 has the subcategory 2, which has the subcategory 3; user 1
\* spent 20 in each of 2 and 3 in March 2024: the record of category 1 shows 20
C6_Witness ==
    /\ \E c \in db.expense_category : c.id = 1 /\ c.parent_id = NoParent
    /\ \E c \in db.expense_category : c.id = 2 /\ c.parent_id = 1
    /\ \E c \in db.expense_category : c.id = 3 /\ c.parent_id = 2
    /\ \E e \in db.expense : e.user_id = 1 /\ e.category_id = 2
    /\ \E e \in db.expense : e.user_id = 1 /\ e.category_id = 3
    /\ budget_vs_spend(db, 1, 3, 2024) = <<[name |-> "Food", budget |-> 0, spent |-> 20]>>

\* ------------------------------------------------------------------ breakdown
\* Expense categories of user 1 named "Food" or "Rent" (top-level or under
\* category 1), one savings category, and entries of both users dated 2024-03-15;
\* analytics_data is asked for the month of the entries and for the month after.
MaxBreakdownExpenseId == 2
MaxBreakdownSavingsId == 1

BreakdownMonths == {March2024, April2024}

NextBreakdown ==
    \/ AddExpenseCategory({1}, {"Food", "Rent"}, {NoParent, 1}, MaxId)
    \/ AddSavingsCategory({1}, {"Food"}, MaxBreakdownSavingsId)
    \/ AddExpense(Users, {50}, Ids, {March15}, MaxBreakdownExpenseId)
    \/ AddSavings(Users, {50}, {1}, {March15}, MaxBreakdownSavingsId)

SpecBreakdown == Init /\ [][NextBreakdown]_vars

\* the entries of `user` in table `etable` dated in month m
EntriesIn(d, etable, user, m) ==
    {e \in d[etable] : /\ e.user_id = user
                       /\ e.date.month = m.month
                       /\ e.date.year = m.year}

\* the entries among `entries` whose category, in table `ctable`, is named `name`
Under(d, ctable, entries, name) ==
    {e \in entries : \E c \in d[ctable] : c.id = e.category_id /\ c.name = name}

\* C5 as stated: a category of the user with zero transactions in the target month
\* is absent from expense_by_category / savings_by_category, and an expense category
\* is still present, with spent = 0, in budget_vs_spend.
C5_BreakdownOmission ==
    \A user \in Users, m \in BreakdownMonths :
        LET records == budget_vs_spend(db, user, m.month, m.year) IN
        /\ \A c \in db.expense_category :
              (/\ c.user_id = user
               /\ \A e \in EntriesIn(db, "expense", user, m) : e.category_id # c.id)
              => /\ \A r \in expense_by_category(db, user, m.month, m.year) :
                       r.name # c.name
                 /\ \E k \in DOMAIN records :
                       records[k].name = c.name /\ records[k].spent = 0
        /\ \A c \in db.savings_category :
              (/\ c.user_id = user
               /\ \A e \in EntriesIn(db, "savings", user, m) : e.category_id # c.id)
              => \A r \in savings_by_category(db, user, m.month, m.year) :
                    r.name # c.name

\* C5, amended: expense_by_category / savings_by_category carry an entry only under
\* a name some category of which has a transaction of the user in the target month,
\* so a category with zero transactions adds nothing to them; a top-level expense
\* category of the user has its record in budget_vs_spend all the same, with
\* spent = 0 when neither it nor a direct subcategory has such a transaction.
C5_BreakdownOmissionTopLevel ==
    \A user \in Users, m \in BreakdownMonths :
        LET records == budget_vs_spend(db, user, m.month, m.year)
            tops == {c \in db.expense_category :
                        c.user_id = user /\ c.parent_id = NoParent}
            place(c) == Cardinality({t \in tops : t.id <= c.id})
            spending == EntriesIn(db, "expense", user, m)
            saving == EntriesIn(db, "savings", user, m)
        IN /\ \A r \in expense_by_category(db, user, m.month, m.year) :
                 Under(db, "expense_category", spending, r.name) # {}
           /\ \A r \in savings_by_category(db, user, m.month, m.year) :
                 Under(db, "savings_category", saving, r.name) # {}
           /\ \A c \in tops :
                 /\ place(c) \in DOMAIN records
                 /\ records[place(c)].name = c.name
                 /\ (\A e \in spending :
                        /\ e.category_id # c.id
                        /\ \A s \in db.expense_category :
                              s.parent_id = c.id => e.category_id # s.id)
                    => records[place(c)].spent = 0

\* user 1 spent in "Food" but not in the top-level "Rent" in March 2024, and saved
\* nothing in the savings category: "Rent" is missing from expense_by_category and
\* has spent = 0 in budget_vs_spend, and savings_by_category is empty
C5_Witness ==
    /\ \E c \in db.expense_category :
          c.user_id = 1 /\ c.name = "Rent" /\ c.parent_id = NoParent
    /\ \E c \in db.savings_category : c.user_id = 1
    /\ expense_by_category(db, 1, 3, 2024) = {[name |-> "Food", amount |-> 50]}
    /\ savings_by_category(db, 1, 3, 2024) = {}
    /\ \E k \in DOMAIN budget_vs_spend(db, 1, 3, 2024) :
          budget_vs_spend(db, 1, 3, 2024)[k] = [name |-> "Rent", budget |-> 0, spent |-> 0]

\* ------------------------------------------------------------------ end to end
\* Expense categories of either user named "Food" or "Rent", and expenses of 50 of
\* both users dated 2024-03-15; in every state each user's next add_expense is
\* followed through to the analytics of March and of the months around it.
MaxEndToEndExpenseId == 2

February2024 == [month |-> 2, year |-> 2024]
OtherMonths == {February2024, April2024}
EndToEndAmounts == {20, 50}

NextEndToEnd ==
    \/ AddExpenseCategory(Users, {"Food", "Rent"}, {NoParent, 1}, MaxId)
    \/ AddExpense(Users, {50}, Ids, {March15}, MaxEndToEndExpenseId)

SpecEndToEnd == Init /\ [][NextEndToEnd]_vars

\* the expense_by_category entry expected after `user` added `amount` to
\* the category `c` in the month m
ExpectedEntry(user, amount, c, m) ==
    [name |-> c.name,
     amount |-> amount + SumAmount(Under(db, "expense_category",
                                         EntriesIn(db, "expense", user, m), c.name))]

\* C7 as stated: after a successful add_expense(a, C, d) of a user, expense_by_category
\* for the month of d has one entry named after C, with the sum of the user's expenses
\* of that month under that name (one $50 expense in "Food" gives exactly Food = 50),
\* and analytics_data for any other month is unchanged.
C7_EndToEnd ==
    \A user \in Users, amount \in EndToEndAmounts, c \in db.expense_category :
        LET r == add_expense(db, user, amount, c.id, March15) IN
        r.flash = Flash("Expense added successfully") =>
            /\ {e \in expense_by_category(r.db, user, 3, 2024) : e.name = c.name}
                  = {ExpectedEntry(user, amount, c, March2024)}
            /\ (EntriesIn(db, "expense", user, March2024) = {} /\ amount = 50) =>
                  expense_by_category(r.db, user, 3, 2024)
                     = {[name |-> c.name, amount |-> 50]}
            /\ \A m \in OtherMonths :
                  analytics_data(r.db, user, m.month, m.year)
                     = analytics_data(db, user, m.month, m.year)

\* C7, amended: after a successful add_expense(a, C, d) of a user, with C the id of an
\* existing category, expense_by_category for the month of d has one entry named after
\* C, with the sum of the user's expenses of that month under that name (one $50
\* expense in "Food" gives exactly Food = 50); with C the id of no category the
\* breakdown is as before; for any other month every field of analytics_data is
\* unchanged but monthly_timeline, which grows by a at its point for the month of d.
C7_EndToEndOutsideTimeline ==
    \A user \in Users, amount \in EndToEndAmounts, category_id \in Ids :
        LET r == add_expense(db, user, amount, category_id, March15)
            found == Get(db.expense_category, category_id)
        IN r.flash = Flash("Expense added successfully") =>
            /\ \A c \in found :
                  /\ {e \in expense_by_category(r.db, user, 3, 2024) : e.name = c.name}
                        = {ExpectedEntry(user, amount, c, March2024)}
                  /\ (EntriesIn(db, "expense", user, March2024) = {} /\ amount = 50) =>
                        expense_by_category(r.db, user, 3, 2024)
                           = {[name |-> c.name, amount |-> 50]}
            /\ found = {} =>
                  expense_by_category(r.db, user, 3, 2024)
                     = expense_by_category(db, user, 3, 2024)
            /\ \A m \in OtherMonths :
                  /\ expense_by_category(r.db, user, m.month, m.year)
                        = expense_by_category(db, user, m.month, m.year)
                  /\ savings_by_category(r.db, user, m.month, m.year)
                        = savings_by_category(db, user, m.month, m.year)
                  /\ budget_vs_spend(r.db, user, m.month, m.year)
                        = budget_vs_spend(db, user, m.month, m.year)
                  /\ category_details(r.db, user, m.month, m.year)
                        = category_details(db, user, m.month, m.year)
                  /\ budget_timeline(r.db, user, m.month, m.year)
                        = budget_timeline(db, user, m.month, m.year)
                  /\ monthly_timeline(r.db, user, m.month, m.year) =
                        [place \in 1..TimelinePoints |->
                            LET point == monthly_point(db, user, m.month, m.year,
                                                       TimelinePoints - place)
                            IN IF point.month = <<"2", "0", "2", "4", "-", "0", "3">>
                               THEN [point EXCEPT !.amount = @ + amount]
                               ELSE point]

\* user 1 has just added a second expense of 50 under "Food" on 2024-03-15: the
\* breakdown for March 2024 is Food = 100, and the timeline for April 2024 shows the
\* 100 at its fifth point
C7_Witness ==
    /\ flash = Flash("Expense added successfully")
    /\ Cardinality(EntriesIn(db, "expense", 1, March2024)) = 2
    /\ expense_by_category(db, 1, 3, 2024) = {[name |-> "Food", amount |-> 100]}
    /\ monthly_timeline(db, 1, 4, 2024)[5].amount = 100

\* ------------------------------------------------------------------ races
\* Two workers serve the set_budget and ignore_budget_notification requests of user 1
\* side by side, their lookups and writes interleaved in every order; one midnight
\* may pass.
MaxRaceTicks == 1

RaceUsers == {1}
RaceIds == {1}
RaceAmounts == {20, 50}

NextRace ==
    \/ AddExpenseCategory(RaceUsers, {"Food"}, {NoParent}, MaxOf(RaceIds))
    \/ SetBudgetLookup(RaceUsers, RaceIds, RaceAmounts, {March2024})
    \/ SetBudgetWrite
    \/ IgnoreBudgetNotificationLookup(RaceUsers)
    \/ IgnoreBudgetNotificationWrite
    \/ Tick(MaxRaceTicks)

SpecRace == Init /\ [][NextRace]_vars

\* C11: when requests of a user for the same Budget key, or the same
\* IgnoredNotification key, interleave their lookups and writes, no request fails
\* and, once they have all committed, the key has a single row, holding the value of
\* the request that committed last.
C11_LastWriteWins ==
    (\A w \in Workers : pending[w] = Idle) =>
        /\ flash # Flash("500 Internal Server Error")
        /\ \A b1 \in db.budget, b2 \in db.budget :
              BudgetKey(b1) = BudgetKey(b2) => b1 = b2
        /\ \A b \in db.budget :
              \E e \in budget_log : e.key = BudgetKey(b) /\ e.amount = b.amount
        /\ \A n1 \in db.ignored_notification, n2 \in db.ignored_notification :
              (n1.user_id = n2.user_id /\ n1.month = n2.month /\ n1.year = n2.year)
              => n1 = n2
        /\ \A n \in db.ignored_notification, e \in dismissed :
              (e.user_id = n.user_id /\ e.day.month = n.month /\ e.day.year = n.year)
              => n.ignored_date = e.day

\* ------------------------------------------------------------------ coverage
\* Categories named "Food" or "Rent", top-level or under category 1, budgets for
\* December 2023 and January 2024 on any of them, and up to MaxCoverageTicks
\* midnights from 2023-12-30 on: the dashboard is asked on each day.
MaxCoverageBudgetId == 2
MaxCoverageTicks == 2

NextCoverage ==
    \/ AddExpenseCategory(Users, {"Food", "Rent"}, {NoParent, 1}, MaxId)
    \/ SetBudget(Users, Ids, {20}, ClockMonths, MaxCoverageBudgetId)
    \/ Tick(MaxCoverageTicks)

SpecCoverage == Init /\ [][NextCoverage]_vars

\* C12: the dashboard's categories_without_budget lists exactly the names of the
\* user's top-level expense categories that have no Budget row for (user, category,
\* current month, current year), one name per such category; a budget of another
\* month, of a subcategory or of another user covers nothing, and without top-level
\* categories the list is empty.
C12_BudgetCoverage ==
    \A user \in Users :
        LET names == dashboard(db, user, now).categories_without_budget
            uncovered == Uncovered(user, now)
            place(c) == Cardinality({u \in uncovered : u.id <= c.id})
        IN /\ Len(names) = Cardinality(uncovered)
           /\ \A c \in uncovered : names[place(c)] = c.name
           /\ (\A c \in db.expense_category :
                  c.user_id = user => c.parent_id # NoParent) => names = <<>>

\* January 2024: user 1 has the top-level categories "Food", budgeted for January,
\* and "Rent", budgeted for December only: the dashboard lists "Rent" alone
C12_Witness ==
    /\ now.month = 1
    /\ \E c \in db.expense_category :
          /\ c.user_id = 1 /\ c.parent_id = NoParent /\ c.name = "Food"
          /\ \E b \in db.budget : b.category_id = c.id /\ b.month = 1 /\ b.year = 2024
    /\ \E c \in db.expense_category :
          /\ c.user_id = 1 /\ c.parent_id = NoParent /\ c.name = "Rent"
          /\ \E b \in db.budget : b.category_id = c.id /\ b.month = 12 /\ b.year = 2023
    /\ dashboard(db, 1, now).categories_without_budget = <<"Rent">>

\* ------------------------------------------------------------------ dismissals
\* the IgnoredNotification rows of `user` for the month of `today`
DismissalsOf(d, user, today) ==
    {n \in d.ignored_notification :
        /\ n.user_id = user /\ n.notification_type = "missing_budget"
        /\ n.month = today.month /\ n.year = today.year}

\* C13: with every ignore_budget_notification run to completion, there is at most one
\* IgnoredNotification row per (user, 'missing_budget', month, year), dated at the
\* user's latest dismissal of that month; a further dismissal leaves the key with one
\* row dated now, the very row (same id) when there was one, and touches no other.
C13_DismissalUpsert ==
    \A user \in Users :
        LET rows == DismissalsOf(db, user, now)
            after == ignore_budget_notification(db, user, now).db
        IN /\ \A n1 \in db.ignored_notification, n2 \in db.ignored_notification :
                 (/\ n1.user_id = n2.user_id
                  /\ n1.notification_type = n2.notification_type
                  /\ n1.month = n2.month /\ n1.year = n2.year) => n1 = n2
           /\ \A n \in rows, e \in dismissed :
                 (/\ e.user_id = user
                  /\ e.day.month = now.month /\ e.day.year = now.year)
                 => n.ignored_date = e.day
           /\ Cardinality(DismissalsOf(after, user, now)) = 1
           /\ \A n \in DismissalsOf(after, user, now) :
                 /\ n.ignored_date = now
                 /\ \A old \in rows : n = [old EXCEPT !.ignored_date = now]
           /\ after.ignored_notification \ DismissalsOf(after, user, now)
                 = db.ignored_notification \ rows
           /\ [after EXCEPT !.ignored_notification = db.ignored_notification] = db

\* 2023-12-31: user 1, the first to dismiss, dismissed again today, after user 2
\* dismissed yesterday; there are two rows, and user 1's is the first, dated today
C13_Witness ==
    /\ now = Date(2023, 12, 31)
    /\ Cardinality(db.ignored_notification) = 2
    /\ \E n \in db.ignored_notification :
          n.id = 1 /\ n.user_id = 1 /\ n.ignored_date = now
    /\ \E n \in db.ignored_notification :
          n.id = 2 /\ n.user_id = 2 /\ n.ignored_date = Date(2023, 12, 30)

\* ------------------------------------------------------------------ ledger
\* Both users add categories (top-level or under category 1), add, edit and delete
\* expenses dated 2024-03-15, and delete categories.
MaxLedgerExpenseId == 2

NextLedger ==
    \/ AddExpenseCategory(Users, {"Food"}, {NoParent, 1}, MaxId)
    \/ AddExpense(Users, {20}, Ids, {March15}, MaxLedgerExpenseId)
    \/ EditExpense(Users, Ids, {50}, Ids, {March15})
    \/ DeleteExpense(Users, Ids)
    \/ DeleteExpenseCategory(Users, Ids)

SpecLedger == Init /\ [][NextLedger]_vars

\* every category of `user` is top-level or sits directly under an existing
\* top-level category
OneLevelDeep(d, user) ==
    \A c \in d.expense_category :
        (c.user_id = user /\ c.parent_id # NoParent) =>
            \E parent \in d.expense_category :
                parent.id = c.parent_id /\ parent.parent_id = NoParent

\* every expense of `user` is filed under an existing category of `user`
OwnCategoriesOnly(d, user) ==
    \A e \in d.expense :
        e.user_id = user =>
            \E c \in d.expense_category : c.id = e.category_id /\ c.user_id = user

RECURSIVE SumSpent(_, _)
SumSpent(records, n) ==
    IF n = 0 THEN 0 ELSE records[n].spent + SumSpent(records, n - 1)

\* C14: for a user whose categories are nested at most one level deep and whose
\* expenses are all filed under the user's own existing categories, the spent of the
\* budget_vs_spend records adds up to the amount of the last monthly_timeline point
\* of the same response, whatever was added, edited and deleted before.
C14_RollupAddsUp ==
    \A user \in Users :
        (OneLevelDeep(db, user) /\ OwnCategoriesOnly(db, user)) =>
            LET response == analytics_data(db, user, 3, 2024) IN
            SumSpent(response.budget_vs_spend, Len(response.budget_vs_spend))
               = response.monthly_timeline[TimelinePoints].amount

\* ------------------------------------------------------------------ budget owners
\* C15: whatever set_budget and delete_expense_category requests were served, every
\* Budget row is of a category that still exists and belongs to the budget's user;
\* the delete of a category with budgets and neither expenses nor subcategories
\* succeeds and takes exactly the category and its budgets away.
C15_BudgetsFollowCategory ==
    /\ \A b \in db.budget :
          \E c \in db.expense_category : c.id = b.category_id /\ c.user_id = b.user_id
    /\ \A c \in db.expense_category :
          LET budgets == {b \in db.budget : b.category_id = c.id} IN
          (/\ budgets # {}
           /\ \A e \in db.expense : e.category_id # c.id
           /\ \A s \in db.expense_category : s.parent_id # c.id)
          => delete_expense_category(db, c.user_id, c.id)
                = Reply([db EXCEPT !.expense_category = @ \ {c},
                                   !.budget = @ \ budgets],
                        Flash("Category deleted successfully"))

\* a category has just been deleted and the first Budget row went with it: the
\* second row, of the other category, is the only one left
C15_Witness ==
    /\ flash = Flash("Category deleted successfully")
    /\ Cardinality(db.expense_category) = 1
    /\ \E b \in db.budget : b.id = 2
    /\ \A b \in db.budget : b.id # 1

====
